---- MODULE Spec2Model ----
(***************************************************************************)
(* fasttoggl: the local encrypted credential store                         *)
(* (fasttoggl/core/credentials.py, class CredentialsManager).              *)
(*                                                                         *)
(* One process at a time uses the store file credentials.json and the     *)
(* module global _MASTER_PASSWORD_CACHE.  Every facade method is one       *)
(* action; what the user types at a getpass prompt is an input of the      *)
(* action.  Cryptography is symbolic: PBKDF2 is an injective function of   *)
(* (salt, iterations, password), a Fernet token opens only under the key   *)
(* that sealed it, and every encryption draws a fresh IV.                  *)
(*                                                                         *)
(* Spec and SpecEnv are the facade in one process; SpecRace is two         *)
(* processes on one store file, with open() and the write at close as      *)
(* separate steps; SpecCli, SpecEntry and SpecAudio are the command-line   *)
(* functions of fasttoggl/cli.py that call the facade.                     *)
(***************************************************************************)
EXTENDS Integers, Sequences, FiniteSets, TLC

VARIABLES
    file,           \* content of ~/config/fasttoggl/credentials.json
    configDir,      \* whether ~/config/fasttoggl exists
    cache,          \* _MASTER_PASSWORD_CACHE of the running process
    iv,             \* number of Fernet encryptions so far (source of fresh IVs)
    ret,            \* outcome of the last facade call (op, exception, value)
    saved,          \* arguments of the last successful save_credentials,
                    \* and whether it repeated the one before (again)
    prompts,        \* master-password prompts issued by _get_master_password
    invalidations,  \* cache invalidations in the running process
    disk,           \* text of credentials.json as concurrent processes see it
    procs,          \* the processes that use the store at the same time
    cli,            \* what the last command-line function did and returned
    audio           \* the review loop of cmd_audio

storeVars == <<file, configDir, cache, iv, ret, saved, prompts, invalidations>>
raceVars  == <<disk, procs>>
cliVars   == <<cli, audio>>
vars == <<file, configDir, cache, iv, ret, saved, prompts, invalidations,
          disk, procs, cli, audio>>

-----------------------------------------------------------------------------
(* Bounds *)

MaxEncrypt == 3     \* encryptions performed in one behaviour
MaxPrompts == 2     \* master-password prompts in one process
MaxRounds  == 3     \* calls of process_audio_with_llm in one run of cmd_audio

-----------------------------------------------------------------------------
(* Values *)

NONE == "<None>"                    \* Python None

\* What a user sets up: an email, its API token and a prompt language
\* (None: the language argument is left out).
Accounts  == {[email |-> "a@b.com", api_token |-> "tok123", language |-> "en-US"],
              [email |-> "c@d.org", api_token |-> "tok456", language |-> NONE]}
Passwords == {"hunter2", "hunter3"}
LlmKeys   == {NONE, "", "sk-1"}
Providers == {NONE, "openai"}
Models    == {NONE, "gpt-4o"}

DefaultProvider == "google"
DefaultModel    == "gemini-2.5-flash"
DefaultLanguage == "pt-BR"

Salt       == "fasttoggl_salt_2025"
Iterations == 100000
KeyLength  == 32
FernetVersion == 128

\* Python truthiness of an optional string, and the expression `a or b`.
Falsy(s) == s = NONE \/ s = ""
Or(a, b) == IF Falsy(a) THEN b ELSE a

-----------------------------------------------------------------------------
(* str.encode / bytes.decode (UTF-8) *)

Utf8Encode(s) == [utf8 |-> s]
Utf8Decode(b) == b.utf8

(* PBKDF2-HMAC-SHA256 under the fixed salt: the key is determined by, and  *)
(* determines, the salt, the iteration count and the password bytes.       *)
\* Faulty variant: the key does not depend on the password.
_generate_key_IgnoresPassword(password) ==
    [salt |-> Salt, iterations |-> Iterations, length |-> KeyLength,
     pw |-> Utf8Encode("")]

_generate_key(password) ==
    [salt |-> Salt, iterations |-> Iterations, length |-> KeyLength,
     pw |-> Utf8Encode(password)]

(* Fernet: version byte, IV, ciphertext and HMAC, all under one key.       *)
\* Faulty variant: every token is made with the same IV.
FernetEncrypt_FixedIv(key, data, nonce) ==
    [version |-> FernetVersion, iv |-> 0, key |-> key, data |-> data]

FernetEncrypt(key, data, nonce) ==
    [version |-> FernetVersion, iv |-> nonce, key |-> key, data |-> data]

FernetDecrypt(key, token) ==
    IF token.version = FernetVersion /\ token.key = key
    THEN [ok |-> TRUE, data |-> token.data]
    ELSE [ok |-> FALSE, data |-> Utf8Encode("")]       \* InvalidToken

(* base64.b64encode(...).decode() and base64.b64decode(text.encode())      *)
B64Encode(token) == [b64 |-> TRUE, body |-> token]
B64Valid(text)   == text.b64
B64Decode(text)  == text.body

\* Faulty variant: the key is derived from the salt constant, not from the
\* master password.
_encrypt_password_FixedKey(password, master_password, nonce) ==
    B64Encode(FernetEncrypt(_generate_key(Salt), Utf8Encode(password), nonce))

_encrypt_password(password, master_password, nonce) ==
    B64Encode(FernetEncrypt(_generate_key(master_password),
                            Utf8Encode(password), nonce))

\* [ok |-> FALSE] stands for the exception the call raises.
_decrypt_password(encrypted_password, master_password) ==
    IF ~B64Valid(encrypted_password)
    THEN [ok |-> FALSE, val |-> NONE]                   \* binascii.Error
    ELSE LET d == FernetDecrypt(_generate_key(master_password),
                                B64Decode(encrypted_password))
         IN  IF d.ok THEN [ok |-> TRUE, val |-> Utf8Decode(d.data)]
                     ELSE [ok |-> FALSE, val |-> NONE]  \* InvalidToken

-----------------------------------------------------------------------------
(* The store file: json.dump / json.load *)

Absent == [exists |-> FALSE]
JsonDump(credentials) == [exists |-> TRUE, parse |-> "object", obj |-> credentials]
MalformedJson == [exists |-> TRUE, parse |-> "error"]     \* json.load raises
JsonArray     == [exists |-> TRUE, parse |-> "array"]     \* the text `[]`

\* Ciphertext texts that no _encrypt_password call produces.
NotBase64 == [b64 |-> FALSE,
              body |-> [version |-> 0, iv |-> 0, key |-> _generate_key(""),
                        data |-> Utf8Encode("")]]
NotFernet == [b64 |-> TRUE,
              body |-> [version |-> 0, iv |-> 0, key |-> _generate_key(""),
                        data |-> Utf8Encode("")]]

\* Tokens written by an earlier installation (IV 0 is never drawn again).
OldToken  == _encrypt_password("tok123", "hunter2", 0)
OldLlmKey == _encrypt_password("sk-0", "hunter2", 0)
LostToken == _encrypt_password("tok123", "forgotten", 0)

\* What json.load may find in credentials.json when the file is not the
\* work of this process: the file is plain text in the user's directory.
StoreContents ==
    { Absent, MalformedJson, JsonArray,
      JsonDump([email |-> "a@b.com", language |-> "en-US"]),
      JsonDump([encrypted_password |-> OldToken, language |-> "en-US"]),
      JsonDump([email |-> "a@b.com", encrypted_password |-> NotBase64]),
      JsonDump([email |-> "a@b.com", encrypted_password |-> NotFernet,
                language |-> ""]),
      JsonDump([email |-> "a@b.com", encrypted_password |-> LostToken,
                language |-> "en-US"]),
      JsonDump([email |-> "a@b.com", encrypted_password |-> OldToken,
                llm |-> [provider |-> "openai"]]),
      JsonDump([email |-> "a@b.com", encrypted_password |-> OldToken,
                language |-> "en-US",
                llm |-> [provider |-> "openai", model |-> "",
                         encrypted_key |-> NotFernet]]),
      JsonDump([email |-> "a@b.com", encrypted_password |-> OldToken,
                language |-> "en-US",
                llm |-> [provider |-> "openai", model |-> "gpt-4o",
                         encrypted_key |-> OldLlmKey]]) }

IsObject(f) == f.exists /\ f.parse = "object"
Has(d, k)   == k \in DOMAIN d

-----------------------------------------------------------------------------
(* SessionCache *)

\* Faulty variant: prompts on every call.
_get_master_password_AlwaysPrompts(c, answer) ==
    [mp |-> answer, prompted |-> TRUE]

\* _get_master_password: the cached password, or what the user types.
_get_master_password(c, answer) ==
    [mp |-> IF c = NONE THEN answer ELSE c, prompted |-> c = NONE]

\* Faulty variant: a failed decryption leaves the cache as it is.
InvalidateCache_Keeps(c) == c

\* The `except Exception` branches of the load methods.
InvalidateCache(c) == NONE

-----------------------------------------------------------------------------
(* CredentialsManager *)

Outcome(exc, val, prompted, cleared, mp, c) ==
    [exc |-> exc, val |-> val, prompted |-> prompted, cleared |-> cleared,
     mp |-> mp, cache |-> c]

\* Faulty variant: the arguments of _encrypt_password are swapped for the token.
Credentials_SwappedArgs(email, api_token, llm_provider, llm_model, llm_api_key, language, master_password, nonce) ==
    IF ~Falsy(llm_api_key)
    THEN [email |-> email,
          encrypted_password |-> _encrypt_password(master_password, api_token, nonce + 1),
          language |-> Or(language, DefaultLanguage),
          llm |-> [provider |-> Or(llm_provider, DefaultProvider),
                   model |-> Or(llm_model, DefaultModel),
                   encrypted_key |-> _encrypt_password(llm_api_key, master_password, nonce + 2)]]
    ELSE [email |-> email,
          encrypted_password |-> _encrypt_password(master_password, api_token, nonce + 1),
          language |-> Or(language, DefaultLanguage)]

\* Faulty variant: the llm block is written for every key that is not None.
Credentials_KeyNotNone(email, api_token, llm_provider, llm_model, llm_api_key, language, master_password, nonce) ==
    IF llm_api_key # NONE
    THEN [email |-> email,
          encrypted_password |-> _encrypt_password(api_token, master_password, nonce + 1),
          language |-> Or(language, DefaultLanguage),
          llm |-> [provider |-> Or(llm_provider, DefaultProvider),
                   model |-> Or(llm_model, DefaultModel),
                   encrypted_key |-> _encrypt_password(llm_api_key, master_password, nonce + 2)]]
    ELSE [email |-> email,
          encrypted_password |-> _encrypt_password(api_token, master_password, nonce + 1),
          language |-> Or(language, DefaultLanguage)]

\* Faulty variant: encrypted_password is written only together with the llm block.
Credentials_PasswordOnlyWithLlm(email, api_token, llm_provider, llm_model, llm_api_key, language, master_password, nonce) ==
    IF ~Falsy(llm_api_key)
    THEN [email |-> email,
          encrypted_password |-> _encrypt_password(api_token, master_password, nonce + 1),
          language |-> Or(language, DefaultLanguage),
          llm |-> [provider |-> Or(llm_provider, DefaultProvider),
                   model |-> Or(llm_model, DefaultModel),
                   encrypted_key |-> _encrypt_password(llm_api_key, master_password, nonce + 2)]]
    ELSE [email |-> email,
          language |-> Or(language, DefaultLanguage)]

\* Faulty variant: the llm block holds a provider only when one was passed.
Credentials_PartialLlm(email, api_token, llm_provider, llm_model, llm_api_key, language, master_password, nonce) ==
    IF ~Falsy(llm_api_key)
    THEN [email |-> email,
          encrypted_password |-> _encrypt_password(api_token, master_password, nonce + 1),
          language |-> Or(language, DefaultLanguage),
          llm |-> IF Falsy(llm_provider)
                  THEN [model |-> Or(llm_model, DefaultModel),
                        encrypted_key |-> _encrypt_password(llm_api_key, master_password, nonce + 2)]
                  ELSE [provider |-> llm_provider,
                        model |-> Or(llm_model, DefaultModel),
                        encrypted_key |-> _encrypt_password(llm_api_key, master_password, nonce + 2)]]
    ELSE [email |-> email,
          encrypted_password |-> _encrypt_password(api_token, master_password, nonce + 1),
          language |-> Or(language, DefaultLanguage)]

\* Faulty variant: the model passed is ignored.
Credentials_DefaultModelAlways(email, api_token, llm_provider, llm_model, llm_api_key, language, master_password, nonce) ==
    IF ~Falsy(llm_api_key)
    THEN [email |-> email,
          encrypted_password |-> _encrypt_password(api_token, master_password, nonce + 1),
          language |-> Or(language, DefaultLanguage),
          llm |-> [provider |-> Or(llm_provider, DefaultProvider),
                   model |-> DefaultModel,
                   encrypted_key |-> _encrypt_password(llm_api_key, master_password, nonce + 2)]]
    ELSE [email |-> email,
          encrypted_password |-> _encrypt_password(api_token, master_password, nonce + 1),
          language |-> Or(language, DefaultLanguage)]

\* Faulty variant: the LLM key is encrypted under the API token, not under the
\* master password.
Credentials_KeyUnderToken(email, api_token, llm_provider, llm_model, llm_api_key, language, master_password, nonce) ==
    IF ~Falsy(llm_api_key)
    THEN [email |-> email,
          encrypted_password |-> _encrypt_password(api_token, master_password, nonce + 1),
          language |-> Or(language, DefaultLanguage),
          llm |-> [provider |-> Or(llm_provider, DefaultProvider),
                   model |-> Or(llm_model, DefaultModel),
                   encrypted_key |-> _encrypt_password(llm_api_key, api_token, nonce + 2)]]
    ELSE [email |-> email,
          encrypted_password |-> _encrypt_password(api_token, master_password, nonce + 1),
          language |-> Or(language, DefaultLanguage)]

\* The dict save_credentials builds; it uses the IVs nonce+1 and nonce+2.
Credentials(email, api_token, llm_provider, llm_model, llm_api_key, language, master_password, nonce) ==
    IF ~Falsy(llm_api_key)
    THEN [email |-> email,
          encrypted_password |-> _encrypt_password(api_token, master_password, nonce + 1),
          language |-> Or(language, DefaultLanguage),
          llm |-> [provider |-> Or(llm_provider, DefaultProvider),
                   model |-> Or(llm_model, DefaultModel),
                   encrypted_key |-> _encrypt_password(llm_api_key, master_password, nonce + 2)]]
    ELSE [email |-> email,
          encrypted_password |-> _encrypt_password(api_token, master_password, nonce + 1),
          language |-> Or(language, DefaultLanguage)]

Encryptions(llm_api_key) == IF Falsy(llm_api_key) THEN 1 ELSE 2

\* Faulty variant: the record is written before the confirmation is compared.
save_credentials_WriteFirst(f, email, api_token, llm_provider, llm_model, llm_api_key, language, master_password, confirm_master, nonce) ==
    [exc |-> IF master_password # confirm_master THEN "ValueError" ELSE "none",
     file |-> JsonDump(Credentials(email, api_token, llm_provider, llm_model,
                                   llm_api_key, language, master_password, nonce)),
     iv |-> nonce + Encryptions(llm_api_key)]

\* Faulty variant: an existing record keeps its email and encrypted_password; the
\* call only adds what is new.
save_credentials_Merge(f, email, api_token, llm_provider, llm_model, llm_api_key, language, master_password, confirm_master, nonce) ==
    IF master_password # confirm_master
    THEN [exc |-> "ValueError", file |-> f, iv |-> nonce]
    ELSE LET new == Credentials(email, api_token, llm_provider, llm_model,
                                llm_api_key, language, master_password, nonce)
         IN  [exc |-> "none",
              file |-> IF IsObject(f) /\ Has(f.obj, "email")
                          /\ Has(f.obj, "encrypted_password")
                       THEN JsonDump([new EXCEPT
                                !.email = f.obj.email,
                                !.encrypted_password = f.obj.encrypted_password])
                       ELSE JsonDump(new),
              iv |-> nonce + Encryptions(llm_api_key)]

\* Faulty variant: the llm block of the previous record is carried over when
\* the call brings no LLM key.
save_credentials_KeepsLlm(f, email, api_token, llm_provider, llm_model, llm_api_key, language, master_password, confirm_master, nonce) ==
    IF master_password # confirm_master
    THEN [exc |-> "ValueError", file |-> f, iv |-> nonce]
    ELSE LET new == Credentials(email, api_token, llm_provider, llm_model,
                                llm_api_key, language, master_password, nonce)
         IN  [exc |-> "none",
              file |-> IF IsObject(f) /\ Has(f.obj, "llm") /\ ~Has(new, "llm")
                       THEN JsonDump([email |-> new.email,
                                      encrypted_password |-> new.encrypted_password,
                                      language |-> new.language,
                                      llm |-> f.obj.llm])
                       ELSE JsonDump(new),
              iv |-> nonce + Encryptions(llm_api_key)]

\* save_credentials: the exception raised, the file and the IV counter after.
save_credentials(f, email, api_token, llm_provider, llm_model, llm_api_key, language, master_password, confirm_master, nonce) ==
    IF master_password # confirm_master
    THEN [exc |-> "ValueError", file |-> f, iv |-> nonce]
    ELSE [exc |-> "none",
          file |-> JsonDump(Credentials(email, api_token, llm_provider, llm_model,
                                        llm_api_key, language, master_password, nonce)),
          iv |-> nonce + Encryptions(llm_api_key)]

\* Faulty variant: the master password is obtained before json.load.
ReadCredentials_PromptBeforeParse(f, c, answer) ==
    LET g == _get_master_password(c, answer)
    IN  IF f.parse = "error"
        THEN Outcome("JSONDecodeError", <<>>, g.prompted, FALSE, g.mp, g.mp)
        ELSE LET decrypted == _decrypt_password(f.obj.encrypted_password, g.mp)
             IN  IF /\ IsObject(f)
                    /\ Has(f.obj, "encrypted_password")
                    /\ decrypted.ok
                    /\ Has(f.obj, "email")
                 THEN Outcome("none", <<f.obj.email, decrypted.val>>,
                              g.prompted, FALSE, g.mp, g.mp)
                 ELSE Outcome("none", <<NONE, NONE>>,
                              g.prompted, TRUE, g.mp, InvalidateCache(g.mp))

\* load_credentials once the file is known to exist.
ReadCredentials(f, c, answer) ==
    IF f.parse = "error"
    THEN Outcome("JSONDecodeError", <<>>, FALSE, FALSE, NONE, c)
    ELSE LET g == _get_master_password(c, answer)
             decrypted == _decrypt_password(f.obj.encrypted_password, g.mp)
         IN  IF /\ IsObject(f)                          \* else TypeError
                /\ Has(f.obj, "encrypted_password")     \* else KeyError
                /\ decrypted.ok
                /\ Has(f.obj, "email")                  \* else KeyError
             THEN Outcome("none", <<f.obj.email, decrypted.val>>,
                          g.prompted, FALSE, g.mp, g.mp)
             ELSE Outcome("none", <<NONE, NONE>>,
                          g.prompted, TRUE, g.mp, InvalidateCache(g.mp))

\* Faulty variant: the master password is obtained before the file is looked for.
load_credentials_PromptFirst(f, c, answer) ==
    IF ~f.exists
    THEN LET g == _get_master_password(c, answer)
         IN  Outcome("none", <<NONE, NONE>>, g.prompted, FALSE, g.mp, g.mp)
    ELSE ReadCredentials(f, c, answer)

load_credentials(f, c, answer) ==
    IF ~f.exists
    THEN Outcome("none", <<NONE, NONE>>, FALSE, FALSE, NONE, c)
    ELSE ReadCredentials(f, c, answer)

\* Faulty variant: looks for key.bin, which is never written.
credentials_exist_KeyFile(f) == FALSE

credentials_exist(f) == f.exists

\* Faulty variant: a failed decryption returns the defaults, not what is stored.
ReadLlmConfig_DefaultsOnFailure(f, c, answer) ==
    IF f.parse = "error"
    THEN Outcome("JSONDecodeError", <<>>, FALSE, FALSE, NONE, c)
    ELSE IF f.parse = "array"
    THEN Outcome("AttributeError", <<>>, FALSE, FALSE, NONE, c)
    ELSE LET hasLlm   == Has(f.obj, "llm")
             provider == IF hasLlm /\ Has(f.obj.llm, "provider")
                         THEN Or(f.obj.llm.provider, DefaultProvider)
                         ELSE DefaultProvider
             model    == IF hasLlm /\ Has(f.obj.llm, "model")
                         THEN Or(f.obj.llm.model, DefaultModel)
                         ELSE DefaultModel
         IN  IF ~(hasLlm /\ Has(f.obj.llm, "encrypted_key"))
             THEN Outcome("none", <<provider, model, NONE>>, FALSE, FALSE, NONE, c)
             ELSE LET g   == _get_master_password(c, answer)
                      key == _decrypt_password(f.obj.llm.encrypted_key, g.mp)
                  IN  IF key.ok
                      THEN Outcome("none", <<provider, model, key.val>>,
                                   g.prompted, FALSE, g.mp, g.mp)
                      ELSE Outcome("none", <<DefaultProvider, DefaultModel, NONE>>,
                                   g.prompted, TRUE, g.mp, InvalidateCache(g.mp))

\* load_llm_config once the file is known to exist.
ReadLlmConfig(f, c, answer) ==
    IF f.parse = "error"
    THEN Outcome("JSONDecodeError", <<>>, FALSE, FALSE, NONE, c)
    ELSE IF f.parse = "array"
    THEN Outcome("AttributeError", <<>>, FALSE, FALSE, NONE, c)
    ELSE LET hasLlm   == Has(f.obj, "llm")
             provider == IF hasLlm /\ Has(f.obj.llm, "provider")
                         THEN Or(f.obj.llm.provider, DefaultProvider)
                         ELSE DefaultProvider
             model    == IF hasLlm /\ Has(f.obj.llm, "model")
                         THEN Or(f.obj.llm.model, DefaultModel)
                         ELSE DefaultModel
         IN  IF ~(hasLlm /\ Has(f.obj.llm, "encrypted_key"))
             THEN Outcome("none", <<provider, model, NONE>>, FALSE, FALSE, NONE, c)
             ELSE LET g   == _get_master_password(c, answer)
                      key == _decrypt_password(f.obj.llm.encrypted_key, g.mp)
                  IN  IF key.ok
                      THEN Outcome("none", <<provider, model, key.val>>,
                                   g.prompted, FALSE, g.mp, g.mp)
                      ELSE Outcome("none", <<provider, model, NONE>>,
                                   g.prompted, TRUE, g.mp, InvalidateCache(g.mp))

\* Faulty variant: a missing store yields the default provider.
load_llm_config_DefaultProvider(f, c, answer) ==
    IF ~f.exists
    THEN Outcome("none", <<DefaultProvider, DefaultModel, NONE>>,
                 FALSE, FALSE, NONE, c)
    ELSE ReadLlmConfig(f, c, answer)

load_llm_config(f, c, answer) ==
    IF ~f.exists
    THEN Outcome("none", <<NONE, DefaultModel, NONE>>, FALSE, FALSE, NONE, c)
    ELSE ReadLlmConfig(f, c, answer)

\* Faulty variant: the stored value is returned as it is, without `or "pt-BR"`.
load_language_NoDefault(f) ==
    IF ~f.exists THEN DefaultLanguage
    ELSE IF ~IsObject(f) THEN DefaultLanguage
    ELSE IF Has(f.obj, "language") THEN f.obj.language
    ELSE DefaultLanguage

load_language(f) ==
    IF ~f.exists THEN DefaultLanguage
    ELSE IF ~IsObject(f) THEN DefaultLanguage           \* except Exception
    ELSE IF Has(f.obj, "language") THEN Or(f.obj.language, DefaultLanguage)
    ELSE DefaultLanguage

-----------------------------------------------------------------------------
(* State machine *)

NoSave == [done |-> FALSE]
NoCall == [op |-> "start", exc |-> "none", val |-> <<>>,
           prompted |-> FALSE, cleared |-> FALSE, mp |-> NONE, confirm |-> NONE]

Return(op, o) ==
    [op |-> op, exc |-> o.exc, val |-> o.val,
     prompted |-> o.prompted, cleared |-> o.cleared, mp |-> o.mp, confirm |-> NONE]

Count(b) == IF b THEN 1 ELSE 0

\* Whether a save_credentials call repeats the arguments and the master
\* password of the last successful one.
SameArgs(s, email, api_token, llm_provider, llm_model, llm_api_key, language, master_password) ==
    /\ s.done
    /\ s.email = email /\ s.api_token = api_token
    /\ s.llm_provider = llm_provider /\ s.llm_model = llm_model
    /\ s.llm_api_key = llm_api_key /\ s.language = language
    /\ s.master_password = master_password

\* The text of credentials.json between the system calls of concurrent
\* processes: a sequence of segments, one for each top-level key that
\* json.dump writes, each marked with the record it belongs to.
NoDisk == [exists |-> FALSE, text |-> <<>>]
Procs  == {1, 2}
IdleProc == [pc |-> "idle", op |-> "none", buf |-> <<>>, exc |-> "none",
             during |-> FALSE, read |-> Absent, old |-> Absent, new |-> Absent]

\* No command-line function has run; cmd_audio is not in its review loop.
NoCommand == [op |-> "start"]
NoAudio   == [pc |-> "off", projects |-> {}, activities |-> <<>>,
              llmCalls |-> 0, answer |-> "", puts |-> <<>>]

Init ==
    /\ file = Absent
    /\ configDir = FALSE
    /\ cache = NONE
    /\ iv = 0
    /\ ret = NoCall
    /\ saved = NoSave
    /\ prompts = 0
    /\ invalidations = 0
    /\ disk = NoDisk
    /\ procs = [p \in Procs |-> IdleProc]
    /\ cli = NoCommand
    /\ audio = NoAudio

\* A new run of the command-line tool: the module global starts as None.
NewProcess ==
    /\ cache' = NONE
    /\ ret' = NoCall
    /\ prompts' = 0
    /\ invalidations' = 0
    /\ UNCHANGED <<file, configDir, iv, saved, raceVars, cliVars>>

SaveCredentials(email, api_token, llm_provider, llm_model, llm_api_key, language, master_password, confirm_master) ==
    LET o == save_credentials(file, email, api_token, llm_provider, llm_model,
                              llm_api_key, language, master_password,
                              confirm_master, iv)
    IN  /\ o.iv <= MaxEncrypt
        /\ configDir' = TRUE                            \* _ensure_config_dir
        /\ file' = o.file
        /\ iv' = o.iv
        /\ ret' = [op |-> "save_credentials", exc |-> o.exc, val |-> <<>>,
                   prompted |-> FALSE, cleared |-> FALSE,
                   mp |-> master_password, confirm |-> confirm_master]
        /\ saved' = IF o.exc = "none"
                    THEN [done |-> TRUE, email |-> email, api_token |-> api_token,
                          llm_provider |-> llm_provider, llm_model |-> llm_model,
                          llm_api_key |-> llm_api_key, language |-> language,
                          master_password |-> master_password,
                          again |-> SameArgs(saved, email, api_token, llm_provider,
                                             llm_model, llm_api_key, language,
                                             master_password)]
                    ELSE saved
        /\ UNCHANGED <<cache, prompts, invalidations, raceVars, cliVars>>

LoadCredentials(answer) ==
    LET o == load_credentials(file, cache, answer)
    IN  /\ prompts + Count(o.prompted) <= MaxPrompts
        /\ cache' = o.cache
        /\ ret' = Return("load_credentials", o)
        /\ prompts' = prompts + Count(o.prompted)
        /\ invalidations' = invalidations + Count(o.cleared)
        /\ UNCHANGED <<file, configDir, iv, saved, raceVars, cliVars>>

LoadLlmConfig(answer) ==
    LET o == load_llm_config(file, cache, answer)
    IN  /\ prompts + Count(o.prompted) <= MaxPrompts
        /\ cache' = o.cache
        /\ ret' = Return("load_llm_config", o)
        /\ prompts' = prompts + Count(o.prompted)
        /\ invalidations' = invalidations + Count(o.cleared)
        /\ UNCHANGED <<file, configDir, iv, saved, raceVars, cliVars>>

LoadLanguage ==
    /\ ret' = [op |-> "load_language", exc |-> "none", val |-> <<load_language(file)>>,
               prompted |-> FALSE, cleared |-> FALSE, mp |-> NONE, confirm |-> NONE]
    /\ UNCHANGED <<file, configDir, cache, iv, saved, prompts, invalidations,
                   raceVars, cliVars>>

CredentialsExist ==
    /\ ret' = [op |-> "credentials_exist", exc |-> "none",
               val |-> <<IF credentials_exist(file) THEN "True" ELSE "False">>,
               prompted |-> FALSE, cleared |-> FALSE, mp |-> NONE, confirm |-> NONE]
    /\ UNCHANGED <<file, configDir, cache, iv, saved, prompts, invalidations,
                   raceVars, cliVars>>

\* Arguments of a save_credentials call.  A call whose confirmation differs
\* from the master password never reads its other arguments, so one choice of
\* them stands for all.
SaveArgs(master_password, confirm_master) ==
    IF master_password = confirm_master
    THEN [account : Accounts, llm_provider : Providers,
          llm_model : Models, llm_api_key : LlmKeys]
    ELSE [account : {[email |-> "c@d.org", api_token |-> "tok456",
                      language |-> NONE]},
          llm_provider : {NONE}, llm_model : {NONE}, llm_api_key : {"sk-1"}]

Next ==
    \/ NewProcess
    \/ \E master_password \in Passwords, confirm_master \in Passwords :
          \E a \in SaveArgs(master_password, confirm_master) :
             SaveCredentials(a.account.email, a.account.api_token, a.llm_provider, a.llm_model,
                             a.llm_api_key, a.account.language,
                             master_password, confirm_master)
    \/ \E answer \in Passwords : LoadCredentials(answer)
    \/ \E answer \in Passwords : LoadLlmConfig(answer)
    \/ LoadLanguage
    \/ CredentialsExist

Spec == Init /\ [][Next]_vars

\* The store file is changed or removed outside the facade (an editor, a
\* restored backup, another installation).
ExternalEdit(content) ==
    /\ content # file
    /\ file' = content
    /\ configDir' = (configDir \/ content.exists)
    /\ saved' = NoSave
    /\ ret' = [NoCall EXCEPT !.op = "external"]
    /\ UNCHANGED <<cache, iv, prompts, invalidations, raceVars, cliVars>>

NextEnv ==
    \/ Next
    \/ \E content \in StoreContents : ExternalEdit(content)

SpecEnv == Init /\ [][NextEnv]_vars

-----------------------------------------------------------------------------
(* Two processes on one store file *)

\* json.dump(credentials, f, indent=2): the keys in insertion order.
JsonText(credentials) ==
    [i \in 1..Cardinality(DOMAIN credentials) |-> [rec |-> credentials, pos |-> i]]

\* json.load of the whole file: an object when the text is what json.dump
\* wrote for one record, JSONDecodeError on an empty or a patched text.
JsonLoad(d) ==
    IF ~d.exists THEN Absent
    ELSE IF d.text # <<>> /\ d.text = JsonText(d.text[1].rec)
    THEN JsonDump(d.text[1].rec)
    ELSE MalformedJson

\* write(2) at offset 0 of a descriptor opened without O_APPEND: the bytes
\* beyond the written ones stay.
WriteAt0(text, buf) ==
    buf \o SubSeq(text, Len(buf) + 1, Len(text))

\* save_credentials up to open(credentials_file, "w"): the record is built
\* and the file is truncated; the text waits in the buffer of f.
RaceSaveOpen(p, account, llm_api_key, master_password) ==
    LET o == save_credentials(JsonLoad(disk), account.email, account.api_token,
                              NONE, NONE, llm_api_key, account.language,
                              master_password, master_password, iv)
    IN  /\ procs[p].pc = "idle"
        /\ o.iv <= MaxEncrypt
        /\ disk' = [exists |-> TRUE, text |-> <<>>]
        /\ procs' = [procs EXCEPT ![p] =
                        [IdleProc EXCEPT !.pc = "opened", !.op = "save",
                                         !.buf = JsonText(o.file.obj),
                                         !.old = JsonLoad(disk), !.new = o.file]]
        /\ iv' = o.iv
        /\ configDir' = TRUE
        /\ file' = JsonLoad(disk')
        /\ ret' = [NoCall EXCEPT !.op = "race"]
        /\ saved' = NoSave
        /\ UNCHANGED <<cache, prompts, invalidations, cliVars>>

\* The end of the with block: the buffer is flushed in one write and the
\* file is closed.
RaceSaveClose(p) ==
    /\ procs[p].pc = "opened"
    /\ disk' = [disk EXCEPT !.text = WriteAt0(disk.text, procs[p].buf)]
    /\ procs' = [procs EXCEPT ![p].pc = "done"]
    /\ file' = JsonLoad(disk')
    /\ ret' = [NoCall EXCEPT !.op = "race"]
    /\ UNCHANGED <<configDir, cache, iv, saved, prompts, invalidations, cliVars>>

\* load_credentials in a process of its own (its cache is empty), while
\* some other process may be inside save_credentials.
RaceLoad(p, answer) ==
    LET o == load_credentials(JsonLoad(disk), NONE, answer)
        savers == {q \in Procs : procs[q].pc = "opened"}
        q == CHOOSE q \in savers : TRUE
    IN  /\ procs[p].pc = "idle"
        /\ procs' = [procs EXCEPT ![p] =
                        [IdleProc EXCEPT !.pc = "done", !.op = "load",
                                         !.exc = o.exc,
                                         !.read = JsonLoad(disk),
                                         !.during = (savers # {}),
                                         !.old = IF savers = {} THEN JsonLoad(disk)
                                                 ELSE procs[q].old,
                                         !.new = IF savers = {} THEN JsonLoad(disk)
                                                 ELSE procs[q].new]]
        /\ ret' = [NoCall EXCEPT !.op = "race"]
        /\ UNCHANGED <<file, configDir, cache, iv, saved, prompts, invalidations,
                       disk, cliVars>>

\* The processes that have finished exit and others are started.
RaceExit ==
    /\ \A p \in Procs : procs[p].pc # "opened"
    /\ \E p \in Procs : procs[p].pc = "done"
    /\ procs' = [p \in Procs |-> IdleProc]
    /\ ret' = [NoCall EXCEPT !.op = "race"]
    /\ UNCHANGED <<file, configDir, cache, iv, saved, prompts, invalidations,
                   disk, cliVars>>

NextRace ==
    \/ \E p \in Procs, account \in Accounts, llm_api_key \in LlmKeys,
          master_password \in Passwords :
          RaceSaveOpen(p, account, llm_api_key, master_password)
    \/ \E p \in Procs : RaceSaveClose(p)
    \/ \E p \in Procs, answer \in Passwords : RaceLoad(p, answer)
    \/ RaceExit

SpecRace == Init /\ [][NextRace]_vars

-----------------------------------------------------------------------------
(* Command line: fasttoggl/cli.py *)

\* str.strip() and str.lower() on the lines a user types in the model.
Strip(s) ==
    CASE s = "  " -> ""
      [] s = " a@b.com " -> "a@b.com"
      [] s = " Yes " -> "Yes"
      [] s = "S " -> "S"
      [] s = " q" -> "q"
      [] OTHER -> s
Lower(s) ==
    CASE s = "Yes" -> "yes"
      [] s = "Y" -> "y"
      [] s = "S" -> "s"
      [] s = "A" -> "a"
      [] OTHER -> s

\* Answers to "Do you want to reconfigure? (y/N)".
Replies == {"y", " Yes ", "Y", "n", ""}

\* What the user types at the prompts of setup_credentials.
Forms ==
    { [email |-> " a@b.com ", password |-> "tok123", llm_provider |-> "",
       llm_model |-> "", llm_api_key |-> "", language |-> ""],
      [email |-> "c@d.org", password |-> "tok456", llm_provider |-> "openai",
       llm_model |-> "gpt-4o", llm_api_key |-> "sk-1", language |-> "en-US"],
      [email |-> "  ", password |-> "tok123", llm_provider |-> "openai",
       llm_model |-> "", llm_api_key |-> "", language |-> "en-US"],
      [email |-> "c@d.org", password |-> "", llm_provider |-> "",
       llm_model |-> "", llm_api_key |-> "sk-1", language |-> ""] }
NoForm == [email |-> "", password |-> "", llm_provider |-> "",
           llm_model |-> "", llm_api_key |-> "", language |-> ""]

\* What the tracking service answers to the requests of a client.
Services == {"ok", "unauthorized", "unreachable"}

\* The outcome of setup_credentials: whether the reconfigure question was
\* asked, the answer, the email and token read, whether save_credentials was
\* called, with what arguments and what it raised, and the exception that
\* leaves setup_credentials.
SetupOutcome(asked, response, called, args, o, nonce, f) ==
    [asked |-> asked, response |-> response,
     email |-> args.email, token |-> args.api_token,
     called |-> called, args |-> args,
     saveExc |-> IF called THEN o.exc ELSE "none",
     exc |-> "none",
     file |-> IF called THEN o.file ELSE f,
     iv |-> IF called THEN o.iv ELSE nonce]

\* The keyword arguments of the save_credentials call in setup_credentials.
SetupArgs(form) ==
    LET llm_provider == Or(Strip(form.llm_provider), DefaultProvider)
        llm_model    == Or(Strip(form.llm_model), DefaultModel)
        llm_api_key  == form.llm_api_key
    IN  [email |-> Strip(form.email),
         api_token |-> form.password,
         llm_provider |-> IF ~Falsy(llm_api_key) THEN llm_provider ELSE NONE,
         llm_model |-> IF ~Falsy(llm_api_key) THEN llm_model ELSE NONE,
         llm_api_key |-> IF ~Falsy(llm_api_key) THEN llm_api_key ELSE NONE,
         language |-> Or(Strip(form.language), DefaultLanguage)]
NoArgs == [email |-> "", api_token |-> "", llm_provider |-> NONE,
           llm_model |-> NONE, llm_api_key |-> NONE, language |-> NONE]

\* Faulty variant: the answer to the reconfigure question is not looked at.
setup_credentials_AlwaysReconfigure(f, nonce, reply, form, master_password, confirm_master) ==
    LET response == Lower(Strip(reply))
        a == SetupArgs(form)
        o == save_credentials(f, a.email, a.api_token, a.llm_provider, a.llm_model,
                              a.llm_api_key, a.language,
                              master_password, confirm_master, nonce)
    IN  IF Falsy(a.email) \/ Falsy(a.api_token)
        THEN SetupOutcome(credentials_exist(f), response, FALSE, a, o, nonce, f)
        ELSE SetupOutcome(credentials_exist(f), response, TRUE, a, o, nonce, f)

\* setup_credentials, with the save error caught at the end.
setup_credentials(f, nonce, reply, form, master_password, confirm_master) ==
    LET response == Lower(Strip(reply))
        a == SetupArgs(form)
        o == save_credentials(f, a.email, a.api_token, a.llm_provider, a.llm_model,
                              a.llm_api_key, a.language,
                              master_password, confirm_master, nonce)
    IN  IF credentials_exist(f) /\ response \notin {"y", "yes"}
        THEN SetupOutcome(TRUE, response, FALSE, NoArgs, o, nonce, f)
        ELSE IF Falsy(a.email) \/ Falsy(a.api_token)
        THEN SetupOutcome(credentials_exist(f), response, FALSE, a, o, nonce, f)
        ELSE SetupOutcome(credentials_exist(f), response, TRUE, a, o, nonce, f)

\* force_credentials_setup: setup_credentials on a store that does not exist.
force_credentials_setup(f, nonce, form, master_password, confirm_master) ==
    setup_credentials(f, nonce, "", form, master_password, confirm_master)

\* TogglSessionClient(email, api_token): the constructor asks the service
\* for /me and raises unless the answer is 200.
TogglSessionClient(email, api_token, service) ==
    [email |-> email, api_token |-> api_token, contacted |-> TRUE,
     raised |-> service # "ok"]

\* What get_authenticated_client and check_credentials_and_fetch_data did.
ClientOutcome(existed, s, loaded, o, constructed, client, result, exc, c) ==
    [existed |-> existed, forced |-> ~existed,
     called |-> s.called, args |-> s.args, saveExc |-> s.saveExc,
     file |-> s.file, iv |-> s.iv,
     loaded |-> loaded,
     loadExc |-> IF loaded THEN o.exc ELSE "none",
     loadVal |-> IF loaded /\ o.exc = "none" THEN o.val ELSE <<NONE, NONE>>,
     prompted |-> loaded /\ o.prompted,
     cleared |-> loaded /\ o.cleared,
     cache |-> IF loaded THEN o.cache ELSE c,
     constructed |-> constructed,
     clientArgs |-> IF constructed THEN <<client.email, client.api_token>>
                    ELSE <<NONE, NONE>>,
     contacted |-> constructed /\ client.contacted,
     result |-> result, exc |-> exc]

\* No forced setup: the store exists.
NoSetup(f, nonce) ==
    SetupOutcome(FALSE, "", FALSE, NoArgs, [exc |-> "none"], nonce, f)

\* Faulty variant: the result of load_credentials is not examined.
get_authenticated_client_NoCheck(f, c, nonce, form, master_password, confirm_master, answer, service) ==
    LET existed == credentials_exist(f)
        s == IF existed THEN NoSetup(f, nonce)
             ELSE force_credentials_setup(f, nonce, form, master_password, confirm_master)
        o == load_credentials(s.file, c, answer)
        client == TogglSessionClient(o.val[1], o.val[2], service)
    IN  IF ~credentials_exist(s.file)
        THEN ClientOutcome(existed, s, FALSE, o, FALSE, client, "None", "none", c)
        ELSE IF o.exc # "none"
        THEN ClientOutcome(existed, s, TRUE, o, FALSE, client, "raise", o.exc, c)
        ELSE ClientOutcome(existed, s, TRUE, o, TRUE, client,
                           IF client.raised THEN "None" ELSE "client", "none", c)

\* get_authenticated_client: the client, None, or the exception that
\* load_credentials raised.
get_authenticated_client(f, c, nonce, form, master_password, confirm_master, answer, service) ==
    LET existed == credentials_exist(f)
        s == IF existed THEN NoSetup(f, nonce)
             ELSE force_credentials_setup(f, nonce, form, master_password, confirm_master)
        o == load_credentials(s.file, c, answer)
        client == TogglSessionClient(o.val[1], o.val[2], service)
    IN  IF ~credentials_exist(s.file)
        THEN ClientOutcome(existed, s, FALSE, o, FALSE, client, "None", "none", c)
        ELSE IF o.exc # "none"
        THEN ClientOutcome(existed, s, TRUE, o, FALSE, client, "raise", o.exc, c)
        ELSE IF Falsy(o.val[1]) \/ Falsy(o.val[2])
        THEN ClientOutcome(existed, s, TRUE, o, FALSE, client, "None", "none", c)
        ELSE ClientOutcome(existed, s, TRUE, o, TRUE, client,
                           IF client.raised THEN "None" ELSE "client", "none", c)

\* check_credentials_and_fetch_data: as above, and the organizations,
\* workspaces, entries and projects are fetched inside the same try block
\* (fetched: whether all those requests were answered well).
check_credentials_and_fetch_data(f, c, nonce, form, master_password, confirm_master, answer, service, fetched) ==
    LET existed == credentials_exist(f)
        s == IF existed THEN NoSetup(f, nonce)
             ELSE force_credentials_setup(f, nonce, form, master_password, confirm_master)
        o == load_credentials(s.file, c, answer)
        client == TogglSessionClient(o.val[1], o.val[2], service)
    IN  IF ~credentials_exist(s.file)
        THEN ClientOutcome(existed, s, FALSE, o, FALSE, client, "None", "none", c)
        ELSE IF o.exc # "none"
        THEN ClientOutcome(existed, s, TRUE, o, FALSE, client, "raise", o.exc, c)
        ELSE IF Falsy(o.val[1]) \/ Falsy(o.val[2])
        THEN ClientOutcome(existed, s, TRUE, o, FALSE, client, "None", "none", c)
        ELSE ClientOutcome(existed, s, TRUE, o, TRUE, client,
                           IF client.raised \/ ~fetched THEN "None" ELSE "client",
                           "none", c)

-----------------------------------------------------------------------------
(* toggl create-time-entry: --start and --end *)

\* Command-line strings are sequences of characters.
DigitChars == <<"0", "1", "2", "3", "4", "5", "6", "7", "8", "9">>
IsDigit(ch) == \E i \in 1..10 : DigitChars[i] = ch
DigitValue(ch) == (CHOOSE i \in 1..10 : DigitChars[i] = ch) - 1

\* str.split(sep)
RECURSIVE Split(_, _)
Split(s, sep) ==
    IF \E i \in 1..Len(s) : s[i] = sep
    THEN LET i == CHOOSE i \in 1..Len(s) :
                     s[i] = sep /\ \A j \in 1..(i - 1) : s[j] # sep
         IN  <<SubSeq(s, 1, i - 1)>> \o Split(SubSeq(s, i + 1, Len(s)), sep)
    ELSE <<s>>

\* The blanks that int() ignores around the number.
RECURSIVE StripBlanks(_)
StripBlanks(s) ==
    IF s # <<>> /\ s[1] = " " THEN StripBlanks(Tail(s))
    ELSE IF s # <<>> /\ s[Len(s)] = " " THEN StripBlanks(SubSeq(s, 1, Len(s) - 1))
    ELSE s

RECURSIVE Decimal(_)
Decimal(digits) ==
    IF digits = <<>> THEN 0
    ELSE 10 * Decimal(SubSeq(digits, 1, Len(digits) - 1))
           + DigitValue(digits[Len(digits)])

\* int(text): an optional sign and decimal digits, else ValueError.
int(text) ==
    LET t == StripBlanks(text)
        signed == t # <<>> /\ t[1] \in {"+", "-"}
        digits == IF signed THEN Tail(t) ELSE t
    IN  IF digits # <<>> /\ \A i \in 1..Len(digits) : IsDigit(digits[i])
        THEN [ok |-> TRUE,
              val |-> IF signed /\ t[1] = "-" THEN 0 - Decimal(digits)
                      ELSE Decimal(digits)]
        ELSE [ok |-> FALSE, val |-> 0]

\* hour, minute = map(int, text.split(":"))
ParseClock(text) ==
    LET parts == Split(text, ":")
    IN  IF Len(parts) = 2 /\ int(parts[1]).ok /\ int(parts[2]).ok
        THEN [ok |-> TRUE, hour |-> int(parts[1]).val, minute |-> int(parts[2]).val]
        ELSE [ok |-> FALSE, hour |-> 0, minute |-> 0]

\* Instants are minutes since 0001-01-01T00:00 UTC, the least datetime
\* (seconds and microseconds are set to 0, zone offsets are whole minutes).
DayMinutes == 1440
Today      == 739922                \* the day of datetime.now(timezone.utc)
NoInstant  == 0 - 1

\* datetime.fromisoformat(args.date): the day, or ValueError.
FromIsoFormat(date) ==
    CASE date = "2025-01-15" -> [ok |-> TRUE, day |-> 739265]
      [] date = "0001-01-01" -> [ok |-> TRUE, day |-> 0]
      [] OTHER -> [ok |-> FALSE, day |-> 0]

\* base_date.replace(hour=, minute=, second=0, microsecond=0): ValueError
\* when the hour or the minute is out of range.
Replace(day, hour, minute) ==
    IF hour \in 0..23 /\ minute \in 0..59
    THEN [ok |-> TRUE, t |-> day * DayMinutes + hour * 60 + minute]
    ELSE [ok |-> FALSE, t |-> NoInstant]

\* What toggl_create_time_entry did: its exit status, the uncaught
\* exception if any, the instants it compared and the put_hours call.
EntryOutcome(exit, exc, start_time, end_time, putCalled) ==
    [exit |-> exit, exc |-> exc,
     compared |-> start_time # NoInstant,
     start_time |-> start_time, end_time |-> end_time,
     putCalled |-> putCalled,
     putStart |-> IF putCalled THEN start_time ELSE NoInstant,
     putEnd |-> IF putCalled THEN end_time ELSE NoInstant]

\* Faulty variant: an entry whose end equals its start is let through.
toggl_create_time_entry_AllowsEqual(g, found, date, start, end, system_offset, putRaises) ==
    LET base_date == IF Falsy(date) THEN [ok |-> TRUE, day |-> Today]
                     ELSE FromIsoFormat(date)
        s == ParseClock(start)
        e == ParseClock(end)
        start0 == Replace(base_date.day, s.hour, s.minute)
        end0   == Replace(base_date.day, e.hour, e.minute)
        start_time == start0.t - system_offset
        end_time   == end0.t - system_offset
    IN  IF g.result = "raise" THEN EntryOutcome(1, g.exc, NoInstant, NoInstant, FALSE)
        ELSE IF g.result = "None" THEN EntryOutcome(1, "SystemExit", NoInstant, NoInstant, FALSE)
        ELSE IF ~found THEN EntryOutcome(1, "SystemExit", NoInstant, NoInstant, FALSE)
        ELSE IF ~base_date.ok THEN EntryOutcome(1, "SystemExit", NoInstant, NoInstant, FALSE)
        ELSE IF ~(s.ok /\ e.ok) THEN EntryOutcome(1, "SystemExit", NoInstant, NoInstant, FALSE)
        ELSE IF ~(start0.ok /\ end0.ok) THEN EntryOutcome(1, "ValueError", NoInstant, NoInstant, FALSE)
        ELSE IF start_time < 0 \/ end_time < 0
        THEN EntryOutcome(1, "OverflowError", NoInstant, NoInstant, FALSE)
        ELSE IF end_time < start_time
        THEN EntryOutcome(1, "SystemExit", start_time, end_time, FALSE)
        ELSE IF putRaises THEN EntryOutcome(1, "SystemExit", start_time, end_time, TRUE)
        ELSE EntryOutcome(0, "none", start_time, end_time, TRUE)

\* toggl_create_time_entry, given what get_authenticated_client returned
\* (g), whether --project-id is among the projects of the service, and
\* whether put_hours raises.  sys.exit(1) and an uncaught exception both end
\* the command with status 1.
toggl_create_time_entry(g, found, date, start, end, system_offset, putRaises) ==
    LET base_date == IF Falsy(date) THEN [ok |-> TRUE, day |-> Today]
                     ELSE FromIsoFormat(date)
        s == ParseClock(start)
        e == ParseClock(end)
        start0 == Replace(base_date.day, s.hour, s.minute)
        end0   == Replace(base_date.day, e.hour, e.minute)
        start_time == start0.t - system_offset
        end_time   == end0.t - system_offset
    IN  IF g.result = "raise" THEN EntryOutcome(1, g.exc, NoInstant, NoInstant, FALSE)
        ELSE IF g.result = "None" THEN EntryOutcome(1, "SystemExit", NoInstant, NoInstant, FALSE)
        ELSE IF ~found THEN EntryOutcome(1, "SystemExit", NoInstant, NoInstant, FALSE)
        ELSE IF ~base_date.ok THEN EntryOutcome(1, "SystemExit", NoInstant, NoInstant, FALSE)
        ELSE IF ~(s.ok /\ e.ok) THEN EntryOutcome(1, "SystemExit", NoInstant, NoInstant, FALSE)
        ELSE IF ~(start0.ok /\ end0.ok) THEN EntryOutcome(1, "ValueError", NoInstant, NoInstant, FALSE)
        ELSE IF start_time < 0 \/ end_time < 0
        THEN EntryOutcome(1, "OverflowError", NoInstant, NoInstant, FALSE)
        ELSE IF end_time <= start_time
        THEN EntryOutcome(1, "SystemExit", start_time, end_time, FALSE)
        ELSE IF putRaises THEN EntryOutcome(1, "SystemExit", start_time, end_time, TRUE)
        ELSE EntryOutcome(0, "none", start_time, end_time, TRUE)

-----------------------------------------------------------------------------
(* The command-line functions as actions *)

\* The history of the last successful save after a command that may have
\* run setup_credentials (s: what the setup did).
SavedAfter(s, master_password) ==
    IF s.called /\ s.saveExc = "none"
    THEN [done |-> TRUE, email |-> s.args.email, api_token |-> s.args.api_token,
          llm_provider |-> s.args.llm_provider, llm_model |-> s.args.llm_model,
          llm_api_key |-> s.args.llm_api_key, language |-> s.args.language,
          master_password |-> master_password,
          again |-> SameArgs(saved, s.args.email, s.args.api_token,
                             s.args.llm_provider, s.args.llm_model,
                             s.args.llm_api_key, s.args.language, master_password)]
    ELSE saved

\* fasttoggl auth setup
SetupCredentials(reply, form, master_password, confirm_master) ==
    \E s \in {setup_credentials(file, iv, reply, form, master_password, confirm_master)} :
        /\ s.iv <= MaxEncrypt
        /\ file' = s.file
        /\ iv' = s.iv
        /\ configDir' = (configDir \/ s.called)           \* _ensure_config_dir
        /\ saved' = SavedAfter(s, master_password)
        /\ ret' = [NoCall EXCEPT !.op = "setup_credentials"]
        /\ cli' = [op |-> "setup_credentials", existed |-> credentials_exist(file),
                   asked |-> s.asked, response |-> s.response,
                   email |-> s.email, token |-> s.token,
                   called |-> s.called, saveExc |-> s.saveExc, exc |-> s.exc]
        /\ UNCHANGED <<cache, prompts, invalidations, raceVars, audio>>

\* What the store and the process look like after g, the outcome of
\* get_authenticated_client or check_credentials_and_fetch_data.
AfterClient(g, master_password) ==
    /\ g.iv <= MaxEncrypt
    /\ prompts + Count(g.prompted) <= MaxPrompts
    /\ file' = g.file
    /\ iv' = g.iv
    /\ configDir' = (configDir \/ g.called)
    /\ saved' = SavedAfter(g, master_password)
    /\ cache' = g.cache
    /\ prompts' = prompts + Count(g.prompted)
    /\ invalidations' = invalidations + Count(g.cleared)

ClientView(op, g) ==
    [op |-> op, existed |-> g.existed, forced |-> g.forced, called |-> g.called,
     loaded |-> g.loaded, loadExc |-> g.loadExc, loadVal |-> g.loadVal,
     prompted |-> g.prompted, constructed |-> g.constructed,
     clientArgs |-> g.clientArgs, contacted |-> g.contacted,
     result |-> g.result, exc |-> g.exc]

GetAuthenticatedClient(form, master_password, confirm_master, answer, service) ==
    \E g \in {get_authenticated_client(file, cache, iv, form, master_password,
                                       confirm_master, answer, service)} :
        /\ AfterClient(g, master_password)
        /\ ret' = [NoCall EXCEPT !.op = "get_authenticated_client"]
        /\ cli' = ClientView("get_authenticated_client", g)
        /\ UNCHANGED <<raceVars, audio>>

CheckCredentialsAndFetchData(form, master_password, confirm_master, answer, service, fetched) ==
    \E g \in {check_credentials_and_fetch_data(file, cache, iv, form, master_password,
                                               confirm_master, answer, service, fetched)} :
        /\ AfterClient(g, master_password)
        /\ ret' = [NoCall EXCEPT !.op = "check_credentials_and_fetch_data"]
        /\ cli' = ClientView("check_credentials_and_fetch_data", g)
        /\ UNCHANGED <<raceVars, audio>>

\* What is typed into the forced setup of these runs.  When the store
\* exists there is no forced setup, and one choice stands for all.
ClientForms == {NoForm,
                [email |-> " a@b.com ", password |-> "tok123", llm_provider |-> "",
                 llm_model |-> "", llm_api_key |-> "", language |-> ""]}
Unforced(f, form, master_password, confirm_master) ==
    credentials_exist(f)
      => (form = NoForm /\ master_password = "hunter2" /\ confirm_master = "hunter2")

\* The store contents that an outside hand leaves behind in these runs.
CliStoreContents ==
    { Absent, MalformedJson,
      JsonDump([email |-> "a@b.com", encrypted_password |-> LostToken,
                language |-> "en-US"]) }

NextCli ==
    \/ NewProcess
    \/ \E reply \in Replies, form \in Forms,
          master_password \in Passwords, confirm_master \in Passwords :
          /\ credentials_exist(file) \/ reply = ""     \* the question is not asked
          /\ SetupCredentials(reply, form, master_password, confirm_master)
    \/ \E form \in ClientForms, master_password \in {"hunter2"},
          confirm_master \in Passwords, answer \in Passwords,
          service \in {"ok", "unauthorized"} :
          /\ Unforced(file, form, master_password, confirm_master)
          /\ GetAuthenticatedClient(form, master_password, confirm_master,
                                    answer, service)
    \/ \E form \in ClientForms, master_password \in {"hunter2"},
          confirm_master \in Passwords, answer \in Passwords,
          service \in {"ok", "unreachable"}, fetched \in BOOLEAN :
          /\ Unforced(file, form, master_password, confirm_master)
          /\ CheckCredentialsAndFetchData(form, master_password, confirm_master,
                                          answer, service, fetched)
    \/ \E content \in CliStoreContents : ExternalEdit(content)

SpecCli == Init /\ [][NextCli]_vars

\* One run of `fasttoggl toggl create-time-entry`, from the start of the
\* process (an empty cache) to its exit.
TogglCreateTimeEntry(form, master_password, confirm_master, answer, service, found, date, start, end, system_offset, putRaises) ==
    \E g \in {get_authenticated_client(file, NONE, iv, form, master_password,
                                       confirm_master, answer, service)} :
    \E e \in {toggl_create_time_entry(g, found, date, start, end, system_offset, putRaises)} :
        /\ g.iv <= MaxEncrypt
        /\ file' = g.file
        /\ iv' = g.iv
        /\ configDir' = (configDir \/ g.called)
        /\ saved' = SavedAfter(g, master_password)
        /\ ret' = [NoCall EXCEPT !.op = "toggl_create_time_entry"]
        /\ cli' = [op |-> "toggl_create_time_entry", result |-> g.result,
                   exit |-> e.exit, exc |-> e.exc, compared |-> e.compared,
                   start_time |-> e.start_time, end_time |-> e.end_time,
                   putCalled |-> e.putCalled,
                   putStart |-> e.putStart, putEnd |-> e.putEnd]
        /\ UNCHANGED <<cache, prompts, invalidations, raceVars, audio>>

\* Values of --start and --end: 09:00, 09:30, 9:30, 24:00, 9h, 09:00:00
\* and " 8:05".
TimeArgs ==
    { <<"0", "9", ":", "0", "0">>, <<"0", "9", ":", "3", "0">>,
      <<"9", ":", "3", "0">>, <<"2", "4", ":", "0", "0">>,
      <<"9", "h">>, <<"0", "9", ":", "0", "0", ":", "0", "0">>,
      <<" ", "8", ":", "0", "5">> }
Dates   == {NONE, "0001-01-01", "15/01/2025"}
Offsets == {0, 120}                 \* get_system_offset_in_seconds() / 60

\* Whether this run gets a client: the store exists or is set up, the
\* master password is right and the service accepts the token.
GetsClient(form, master_password, confirm_master, answer, service) ==
    get_authenticated_client(file, NONE, iv, form, master_password,
                             confirm_master, answer, service).result = "client"

NextEntry ==
    \/ \E form \in ClientForms, master_password \in {"hunter2"},
          confirm_master \in Passwords, answer \in Passwords,
          service \in {"ok", "unauthorized"} :
          /\ Unforced(file, form, master_password, confirm_master)
          /\ ~GetsClient(form, master_password, confirm_master, answer, service)
          /\ TogglCreateTimeEntry(form, master_password, confirm_master, answer,
                                  service, FALSE, NONE, <<>>, <<>>, 0, FALSE)
    \/ \E form \in ClientForms, master_password \in {"hunter2"},
          confirm_master \in Passwords, answer \in Passwords,
          service \in {"ok", "unauthorized"} :
          /\ Unforced(file, form, master_password, confirm_master)
          /\ GetsClient(form, master_password, confirm_master, answer, service)
          /\ \E found \in BOOLEAN, date \in Dates, start \in TimeArgs, end \in TimeArgs,
                system_offset \in Offsets, putRaises \in BOOLEAN :
                TogglCreateTimeEntry(form, master_password, confirm_master, answer,
                                     service, found, date, start, end,
                                     system_offset, putRaises)
    \/ ExternalEdit(Absent)

SpecEntry == Init /\ [][NextEntry]_vars

-----------------------------------------------------------------------------
(* cmd_audio: the review loop *)

\* What the language model hands back through the JSON parser.
Activity(project, start_time, end_time) ==
    [project |-> project, start_time |-> start_time, end_time |-> end_time,
     description |-> "work"]
T0900 == <<"0", "9", ":", "0", "0">>
T0930 == <<"0", "9", ":", "3", "0">>
NotDict == [isdict |-> FALSE]
RawOutputs ==
    { NotDict,
      [isdict |-> TRUE, activities |-> <<Activity("alpha", T0900, T0930)>>],
      [isdict |-> TRUE, create_project |-> TRUE, project_name |-> "beta",
       activities |-> <<Activity("beta", T0900, T0930)>>],
      [isdict |-> TRUE, missing_project |-> TRUE, create_project |-> FALSE,
       activities |-> <<Activity("ghost", T0930, T0900),
                        Activity("alpha", T0930, T0900)>>],
      [isdict |-> TRUE, project_name |-> "",
       activities |-> <<Activity("alpha", T0900, T0930),
                        Activity("alpha", <<"9", "h">>, T0930)>>] }

\* The projects the service lists before any is created.
ServiceProjects == {"alpha"}

\* normalize_llm_output
normalize_llm_output(output) ==
    IF ~output.isdict
    THEN [missing_project |-> FALSE, create_project |-> FALSE,
          project_name |-> "", activities |-> <<>>]
    ELSE [missing_project |-> IF Has(output, "missing_project")
                              THEN output.missing_project ELSE FALSE,
          create_project |-> IF Has(output, "create_project")
                             THEN output.create_project ELSE FALSE,
          project_name |-> IF Has(output, "project_name")
                           THEN output.project_name ELSE "",
          activities |-> IF Has(output, "activities")
                         THEN output.activities ELSE <<>>]

\* get_llm(model=model): the stored configuration is loaded, and a provider
\* other than "google" is refused.
get_llm(f, c, answer) ==
    LET l == load_llm_config(f, c, answer)
    IN  IF l.exc # "none" THEN l
        ELSE IF Or(l.val[1], DefaultProvider) # DefaultProvider
        THEN [l EXCEPT !.exc = "ValueError"]
        ELSE l

\* process_audio_with_llm: get_chain builds the model through get_llm, and
\* chain.invoke returns what the model answered (raw) or raises (raised).
process_audio_with_llm(f, c, answer, raw, raised) ==
    LET l == get_llm(f, c, answer)
    IN  [exc |-> IF l.exc # "none" THEN l.exc
                 ELSE IF raised THEN "Exception" ELSE "none",
         raw |-> raw, prompted |-> l.prompted, cleared |-> l.cleared,
         cache |-> l.cache]

\* The time entry that client.put_hours is called with.
TimeEntry(activity, start, end, system_offset) ==
    [project |-> activity.project,
     start |-> Replace(Today, start.hour, start.minute).t - system_offset,
     end |-> Replace(Today, end.hour, end.minute).t - system_offset,
     description |-> activity.description]

\* Faulty variant: an activity is submitted whether or not its project is known.
RECURSIVE SubmitActivities_NoLookup(_, _, _)
SubmitActivities_NoLookup(activities, projects, system_offset) ==
    IF activities = <<>> THEN [puts |-> <<>>, exc |-> "none"]
    ELSE LET activity == Head(activities)
             start == ParseClock(activity.start_time)
             end   == ParseClock(activity.end_time)
             rest  == SubmitActivities_NoLookup(Tail(activities), projects, system_offset)
         IN  IF ~(start.ok /\ end.ok
                  /\ Replace(Today, start.hour, start.minute).ok
                  /\ Replace(Today, end.hour, end.minute).ok)
             THEN [puts |-> <<>>, exc |-> "ValueError"]
             ELSE [puts |-> <<TimeEntry(activity, start, end, system_offset)>> \o rest.puts,
                   exc |-> rest.exc]

\* The `s` branch: every activity of the shown result whose project name is
\* the name of a known project is handed to client.put_hours; an activity
\* whose times do not parse ends the command with ValueError.
RECURSIVE SubmitActivities(_, _, _)
SubmitActivities(activities, projects, system_offset) ==
    IF activities = <<>> THEN [puts |-> <<>>, exc |-> "none"]
    ELSE LET activity == Head(activities)
             start == ParseClock(activity.start_time)
             end   == ParseClock(activity.end_time)
             rest  == SubmitActivities(Tail(activities), projects, system_offset)
         IN  IF ~(start.ok /\ end.ok
                  /\ Replace(Today, start.hour, start.minute).ok
                  /\ Replace(Today, end.hour, end.minute).ok)
             THEN [puts |-> <<>>, exc |-> "ValueError"]
             ELSE IF activity.project \notin projects
             THEN rest
             ELSE [puts |-> <<TimeEntry(activity, start, end, system_offset)>> \o rest.puts,
                   exc |-> rest.exc]

\* cmd_audio up to the review loop: a new process obtains the client and the
\* projects, checks its arguments (argsOk) and records the audio.
CmdAudioStart(form, master_password, confirm_master, answer, service, fetched, argsOk, no_llm) ==
    \E g \in {check_credentials_and_fetch_data(file, NONE, iv, form, master_password,
                                               confirm_master, answer, service, fetched)} :
        /\ audio.pc \notin {"llm", "menu"}
        /\ g.iv <= MaxEncrypt
        /\ file' = g.file
        /\ iv' = g.iv
        /\ configDir' = (configDir \/ g.called)
        /\ saved' = SavedAfter(g, master_password)
        /\ cache' = g.cache
        /\ prompts' = Count(g.prompted)
        /\ invalidations' = Count(g.cleared)
        /\ ret' = [NoCall EXCEPT !.op = "cmd_audio"]
        /\ cli' = ClientView("cmd_audio", g)
        /\ audio' = [NoAudio EXCEPT
                       !.pc = IF g.result = "raise" THEN "crashed"
                              ELSE IF g.result = "None" \/ ~argsOk THEN "exited"
                              ELSE IF no_llm THEN "skipped"
                              ELSE "llm",
                       !.projects = IF g.result = "client" THEN ServiceProjects
                                    ELSE {}]
        /\ UNCHANGED raceVars

\* Answers to "Do you want to create the project? (y/N)".
CreateReplies == {"y", "sim", "n"}

\* One pass from the top of the while loop to the menu: the model is asked,
\* a suggested project may be created (created: the service accepted it),
\* and then the model is asked once more.
CmdAudioProcess(answer, raw, raised, reply, created, raw2, raised2) ==
    \E p1 \in {process_audio_with_llm(file, cache, answer, raw, raised)} :
    \E p2 \in {process_audio_with_llm(file, p1.cache, answer, raw2, raised2)} :
        LET output   == normalize_llm_output(raw)
            response == Lower(Strip(reply))
            creating == /\ p1.exc = "none"
                        /\ output.create_project
                        /\ response \in {"y", "yes", "s", "sim"}
            calls    == IF creating THEN 2 ELSE 1
            asked    == Count(p1.prompted) + (IF creating THEN Count(p2.prompted) ELSE 0)
            failed   == p1.exc # "none" \/ (creating /\ p2.exc # "none")
        IN  /\ audio.pc = "llm"
            /\ audio.llmCalls + calls <= MaxRounds
            /\ prompts + asked <= MaxPrompts
            /\ raised => raw = NotDict
            /\ ~(p1.exc = "none" /\ output.create_project) => reply = "n"
            /\ ~creating => (~created /\ raw2 = NotDict /\ ~raised2)
            /\ raised2 => raw2 = NotDict
            /\ cache' = IF creating THEN p2.cache ELSE p1.cache
            /\ prompts' = prompts + asked
            /\ invalidations' = invalidations + Count(p1.cleared)
                                  + (IF creating THEN Count(p2.cleared) ELSE 0)
            /\ ret' = [NoCall EXCEPT !.op = "cmd_audio_process"]
            /\ audio' = [audio EXCEPT
                           !.pc = IF failed THEN "crashed" ELSE "menu",
                           !.projects = IF creating /\ created
                                        THEN @ \cup {output.project_name} ELSE @,
                           !.activities = IF failed THEN @
                                          ELSE IF creating
                                          THEN normalize_llm_output(raw2).activities
                                          ELSE output.activities,
                           !.llmCalls = @ + calls,
                           !.answer = ""]
            /\ UNCHANGED <<file, configDir, iv, saved, raceVars, cli>>

\* Answers to "Choose an option".
MenuReplies == {"a", "S ", " q", "x", ""}

\* The menu: a, s, q or anything else (recorded: record_audio did not raise).
CmdAudioChoose(reply, system_offset, recorded) ==
    LET response == Lower(Strip(reply))
    IN  \E r \in {SubmitActivities(audio.activities, audio.projects, system_offset)} :
        /\ audio.pc = "menu"
        /\ response # "a" => recorded
        /\ response # "s" => system_offset = 0
        /\ ret' = [NoCall EXCEPT !.op = "cmd_audio_choose"]
        /\ audio' = [audio EXCEPT
                       !.pc = IF response = "a"
                              THEN (IF recorded THEN "llm" ELSE "crashed")
                              ELSE IF response = "s"
                              THEN (IF r.exc = "none" THEN "ended" ELSE "crashed")
                              ELSE IF response = "q" THEN "ended"
                              ELSE "llm",
                       !.puts = IF response = "s" THEN @ \o r.puts ELSE @,
                       !.answer = response]
        /\ UNCHANGED <<file, configDir, cache, iv, saved, prompts, invalidations,
                       raceVars, cli>>

\* What is typed into the forced setup of these runs: nothing, a form
\* without an LLM key, and one with the provider openai and a key.
AudioForms ==
    ClientForms \cup
      {[email |-> "c@d.org", password |-> "tok456", llm_provider |-> "openai",
        llm_model |-> "gpt-4o", llm_api_key |-> "sk-1", language |-> "en-US"]}

NextAudio ==
    \/ \E form \in AudioForms, master_password \in {"hunter2"},
          confirm_master \in Passwords, answer \in Passwords,
          service \in {"ok", "unauthorized"}, fetched \in BOOLEAN,
          argsOk \in BOOLEAN, no_llm \in BOOLEAN :
          /\ credentials_exist(file)
               => (form = NoForm /\ confirm_master = "hunter2")
          /\ CmdAudioStart(form, master_password, confirm_master, answer, service,
                           fetched, argsOk, no_llm)
    \/ \E answer \in {"hunter2"}, raw \in RawOutputs, raised \in BOOLEAN,
          reply \in CreateReplies, created \in BOOLEAN,
          raw2 \in RawOutputs, raised2 \in BOOLEAN :
          CmdAudioProcess(answer, raw, raised, reply, created, raw2, raised2)
    \/ \E reply \in MenuReplies, system_offset \in Offsets, recorded \in BOOLEAN :
          CmdAudioChoose(reply, system_offset, recorded)

SpecAudio == Init /\ [][NextAudio]_vars

-----------------------------------------------------------------------------
(* Properties *)

SavedPair == <<saved.email, saved.api_token>>
Empty     == <<NONE, NONE>>
Plaintexts == {a.api_token : a \in Accounts} \cup (LlmKeys \ {NONE})

\* A load_credentials call that obtained a password other than the one the
\* stored record was encrypted under.
WrongPassword(r) ==
    /\ saved.done
    /\ r.op = "load_credentials"
    /\ r.mp # NONE
    /\ r.mp # saved.master_password

\* C1: after a successful save_credentials(E, T, ...) under master password P,
\* a load_credentials() that finds the SessionCache empty and is answered
\* with P returns exactly (E, T); and decrypting under P what was encrypted
\* under P gives back the plaintext, for every plaintext, password and IV.
C1_RoundTrip ==
    /\ (/\ saved.done
        /\ ret.op = "load_credentials"
        /\ ret.prompted
        /\ ret.mp = saved.master_password)
       => (ret.exc = "none" /\ ret.val = SavedPair)
    /\ \A S \in Plaintexts, P \in Passwords, n \in 0..iv :
          _decrypt_password(_encrypt_password(S, P, n), P) = [ok |-> TRUE, val |-> S]

C1_Witness ==
    /\ saved.done
    /\ ret.op = "load_credentials"
    /\ ret.prompted
    /\ ret.mp = saved.master_password
    /\ ret.val = SavedPair
    /\ iv > 0

\* C2: when the stored record was encrypted under P1 and load_credentials()
\* obtains a different password P2, from the prompt or from the cache, the
\* call returns (None, None) without raising and the SessionCache is empty.
C2_WrongPasswordRejected ==
    WrongPassword(ret) => (ret.exc = "none" /\ ret.val = Empty /\ cache = NONE)

\* The rejected password came from the cache: it opened an earlier record.
C2_Witness ==
    /\ WrongPassword(ret)
    /\ ~ret.prompted
    /\ ret.val = Empty
    /\ cache = NONE

\* C3: the load_credentials() call that follows one rejected for a wrong
\* master password prompts again, and returns the saved (email, token) when
\* the prompt is answered with the right master password.
C3_RecoveryAfterWrongPassword ==
    [][(WrongPassword(ret) /\ ret'.op = "load_credentials")
         => /\ ret'.prompted
            /\ ret'.mp = saved.master_password => ret'.val = SavedPair]_vars

C3_Witness ==
    /\ saved.done
    /\ invalidations > 0
    /\ prompts > 1
    /\ ret.op = "load_credentials"
    /\ ret.prompted
    /\ ret.mp = saved.master_password
    /\ ret.val = SavedPair

\* C4: a save_credentials call whose confirmation differs from the master
\* password raises the mismatch error and leaves the store file as it was,
\* present with the same content or absent.
C4_MismatchAbort ==
    [][(ret'.op = "save_credentials" /\ ret'.mp # ret'.confirm)
         => (ret'.exc = "ValueError" /\ file' = file /\ saved' = saved)]_vars

C4_Witness ==
    /\ ret.op = "save_credentials"
    /\ ret.mp # ret.confirm
    /\ ret.exc = "ValueError"
    /\ file.exists
    /\ saved.done

\* C5: load_credentials() on a missing store file returns (None, None)
\* without prompting and without changing the SessionCache.
C5_MissingStore ==
    [][(~file.exists /\ ret'.op = "load_credentials")
         => /\ ret'.exc = "none"
            /\ ret'.val = Empty
            /\ ~ret'.prompted
            /\ prompts' = prompts
            /\ cache' = cache]_vars

\* The cache was populated before the file disappeared.
C5_Witness ==
    /\ ~file.exists
    /\ ret.op = "load_credentials"
    /\ ret.val = Empty
    /\ cache # NONE

\* C6 as stated: load_llm_config() on a missing store returns the provider
\* "google", the model "gemini-2.5-flash" and no key, without prompting.
C6_Original ==
    (~file.exists /\ ret.op = "load_llm_config")
      => (ret.val = <<DefaultProvider, DefaultModel, NONE>> /\ ~ret.prompted)

\* C6 amended: load_llm_config() on a missing store returns no provider
\* (None), the model "gemini-2.5-flash" and no key, without prompting and
\* without touching the SessionCache.
C6_MissingStoreLlmConfig ==
    [][(~file.exists /\ ret'.op = "load_llm_config")
         => /\ ret'.exc = "none"
            /\ ret'.val = <<NONE, DefaultModel, NONE>>
            /\ ~ret'.prompted
            /\ prompts' = prompts
            /\ cache' = cache]_vars

C6_Witness ==
    /\ ~file.exists
    /\ ret.op = "load_llm_config"
    /\ ret.val = <<NONE, DefaultModel, NONE>>

\* C7: for a record written by save_credentials with no LLM key supplied,
\* load_llm_config() returns ("google", "gemini-2.5-flash", None) without
\* prompting for the master password and without touching the SessionCache.
C7_NoLlmKeyDefaults ==
    [][(saved.done /\ Falsy(saved.llm_api_key) /\ ret'.op = "load_llm_config")
         => /\ ret'.exc = "none"
            /\ ret'.val = <<DefaultProvider, DefaultModel, NONE>>
            /\ ~ret'.prompted
            /\ prompts' = prompts
            /\ cache' = cache]_vars

\* A provider was passed without a key, and the cache was in use.
C7_Witness ==
    /\ saved.done
    /\ saved.llm_api_key = ""
    /\ saved.llm_provider # NONE
    /\ ret.op = "load_llm_config"
    /\ ret.val = <<DefaultProvider, DefaultModel, NONE>>
    /\ cache # NONE

\* A write that adds the llm block to a saved record that had none.
AddsLlmBlock ==
    /\ IsObject(file) /\ ~Has(file.obj, "llm")
    /\ IsObject(file') /\ Has(file'.obj, "llm")

C9_NoLoadRaises ==
    ret.op \in {"load_credentials", "load_llm_config", "load_language"}
      => ret.exc = "none"

\* C10: the master-password prompt is issued only when the SessionCache is
\* empty, so within one process the number of prompts is at most 1 plus the
\* number of cache invalidations (at most one prompt when nothing failed).
C10_PromptOncePerRun ==
    /\ [](prompts <= 1 + invalidations)
    /\ [][prompts' > prompts => (cache = NONE /\ prompts' = prompts + 1)]_vars

C10_Witness ==
    /\ prompts = 2
    /\ invalidations = 1
    /\ cache # NONE

\* The language a record holds; an empty value counts as no language.
HasLanguage(f) ==
    IsObject(f) /\ Has(f.obj, "language") /\ ~Falsy(f.obj.language)

\* C11: load_language() returns the stored language, or "pt-BR" when the
\* language is absent (no key, or an empty value) or the store does not
\* exist; in every state it raises nothing, does not prompt for the master
\* password and changes neither the SessionCache nor the store file.
C11_LoadLanguage ==
    [][ret'.op = "load_language"
         => /\ ret'.exc = "none"
            /\ HasLanguage(file) => ret'.val = <<file.obj.language>>
            /\ ~HasLanguage(file) => ret'.val = <<DefaultLanguage>>
            /\ ~ret'.prompted
            /\ prompts' = prompts
            /\ invalidations' = invalidations
            /\ cache' = cache
            /\ file' = file]_vars

\* The record has no language, and a password is cached.
C11_Witness ==
    /\ ret.op = "load_language"
    /\ IsObject(file)
    /\ ~Has(file.obj, "language")
    /\ ret.val = <<DefaultLanguage>>
    /\ cache # NONE

\* C12: after any sequence of facade operations, a store file that exists
\* holds a record with `email` and `encrypted_password`.
C12_RecordInvariant ==
    file.exists
      => /\ IsObject(file)
         /\ Has(file.obj, "email")
         /\ Has(file.obj, "encrypted_password")

C12_Witness ==
    /\ file.exists
    /\ saved.done
    /\ Falsy(saved.llm_api_key)
    /\ ~Has(file.obj, "llm")
    /\ iv > 1

LlmFields == {"provider", "model", "encrypted_key"}

\* C13: in every record written by save_credentials, whichever of
\* llm_provider, llm_model and llm_api_key were passed, the `llm` block is
\* absent or holds all three of provider, model and encrypted_key.
C13_LlmAllOrNothing ==
    saved.done
      => /\ IsObject(file)
         /\ Has(file.obj, "llm") => DOMAIN file.obj.llm = LlmFields

\* A key was passed with a model and without a provider.
C13_Witness ==
    /\ saved.done
    /\ Has(file.obj, "llm")
    /\ saved.llm_provider = NONE
    /\ saved.llm_model # NONE

\* The secrets of the last save, and what the record shows in the clear.
Secrets ==
    {saved.master_password, saved.api_token}
      \cup (IF Falsy(saved.llm_api_key) THEN {} ELSE {saved.llm_api_key})

ClearText(obj) ==
    {obj.email, obj.language}
      \cup (IF Has(obj, "llm") THEN {obj.llm.provider, obj.llm.model} ELSE {})

\* text is a Fernet token of plain under the key derived from pw.
SealedUnder(text, pw, plain) ==
    /\ B64Valid(text)
    /\ B64Decode(text).version = FernetVersion
    /\ B64Decode(text).key = _generate_key(pw)
    /\ B64Decode(text).data = Utf8Encode(plain)

\* C14: the store file never holds the master password, the API token or
\* the LLM key in the clear: the token and the LLM key are in it only as
\* Fernet tokens under the key derived from the master password, and the
\* record has no field for the master password.
C14_SecretsAtRest ==
    /\ ~saved.done => ~file.exists
    /\ saved.done
         => /\ IsObject(file)
            /\ DOMAIN file.obj \subseteq {"email", "encrypted_password", "language", "llm"}
            /\ ClearText(file.obj) \cap Secrets = {}
            /\ SealedUnder(file.obj.encrypted_password,
                           saved.master_password, saved.api_token)
            /\ Has(file.obj, "llm")
                 => /\ DOMAIN file.obj.llm = LlmFields
                    /\ SealedUnder(file.obj.llm.encrypted_key,
                                   saved.master_password, saved.llm_api_key)

C14_Witness ==
    /\ saved.done
    /\ Has(file.obj, "llm")
    /\ cache = saved.master_password

\* A step that is a successful save_credentials call.
SuccessfulSave ==
    ret'.op = "save_credentials" /\ ret'.exc = "none" /\ iv' > iv

\* C15: a successful save_credentials replaces the record in full: the new
\* record is made of the arguments of the call alone (no `llm` block when no
\* LLM key is passed, whatever the previous record held), and the token is
\* encrypted anew under the master password of the call, so that a different
\* previous master password does not decrypt it.
C15_FullOverwrite ==
    [][SuccessfulSave
         => /\ DOMAIN file'.obj =
                 IF Falsy(saved'.llm_api_key)
                 THEN {"email", "encrypted_password", "language"}
                 ELSE {"email", "encrypted_password", "language", "llm"}
            /\ file'.obj.email = saved'.email
            /\ IsObject(file)
                 => file'.obj.encrypted_password # file.obj.encrypted_password
            /\ _decrypt_password(file'.obj.encrypted_password, saved'.master_password)
                 = [ok |-> TRUE, val |-> saved'.api_token]
            /\ (saved.done /\ saved.master_password # saved'.master_password)
                 => ~_decrypt_password(file'.obj.encrypted_password,
                                       saved.master_password).ok]_vars

\* The cache still holds the master password of the record that was replaced.
C15_Witness ==
    /\ ret.op = "save_credentials"
    /\ ret.exc = "none"
    /\ cache # NONE
    /\ cache # saved.master_password
    /\ ~Has(file.obj, "llm")

StoredOrDefault(d, k, default) == IF Has(d, k) THEN Or(d[k], default) ELSE default

\* A load_llm_config call whose password does not open the stored encrypted_key.
KeyFails(r) ==
    /\ r.op = "load_llm_config"
    /\ r.mp # NONE
    /\ IsObject(file)
    /\ Has(file.obj, "llm")
    /\ Has(file.obj.llm, "encrypted_key")
    /\ ~_decrypt_password(file.obj.llm.encrypted_key, r.mp).ok

\* C16: load_llm_config() on a stored record returns the stored (or default)
\* provider and model whatever happens to the key; when the encrypted_key
\* does not decrypt under the cached or prompted master password it returns
\* them with no key, and the SessionCache is cleared, so that the next call
\* that needs the password prompts.
C16_LlmConfigOnFailure ==
    /\ []((IsObject(file) /\ Has(file.obj, "llm") /\ ret.op = "load_llm_config")
            => /\ ret.exc = "none"
               /\ ret.val[1] = StoredOrDefault(file.obj.llm, "provider", DefaultProvider)
               /\ ret.val[2] = StoredOrDefault(file.obj.llm, "model", DefaultModel))
    /\ [](KeyFails(ret) => (ret.val[3] = NONE /\ cache = NONE))
    /\ [][(KeyFails(ret) /\ ret'.op \in {"load_llm_config", "load_credentials"})
            => ret'.prompted]_vars

\* The password that failed came from the cache.
C16_Witness ==
    /\ KeyFails(ret)
    /\ ~ret.prompted
    /\ ret.val = <<"openai", "gpt-4o", NONE>>
    /\ cache = NONE

\* C17: the record save_credentials writes has language "pt-BR" when no
\* language is passed and, when an LLM key is passed, provider "google" and
\* model "gemini-2.5-flash" unless the caller passed them; what the caller
\* passed is stored as given.
C17_SaveDefaults ==
    saved.done
      => /\ file.obj.language =
              (IF saved.language = NONE THEN "pt-BR" ELSE saved.language)
         /\ ~Falsy(saved.llm_api_key)
              => /\ Has(file.obj, "llm")
                 /\ file.obj.llm.provider =
                      (IF saved.llm_provider = NONE THEN "google" ELSE saved.llm_provider)
                 /\ file.obj.llm.model =
                      (IF saved.llm_model = NONE THEN "gemini-2.5-flash" ELSE saved.llm_model)

C17_Witness ==
    /\ saved.done
    /\ saved.language = NONE
    /\ ~Falsy(saved.llm_api_key)
    /\ saved.llm_provider = NONE
    /\ saved.llm_model = "gpt-4o"
    /\ file.obj.llm.model = "gpt-4o"

\* C18: a successful save_credentials that repeats the arguments and the
\* master password of the one before writes a different encrypted_password,
\* and both tokens decrypt to the same API token.
C18_RandomizedEncryption ==
    [][(SuccessfulSave /\ saved'.again)
         => /\ file'.obj.encrypted_password # file.obj.encrypted_password
            /\ _decrypt_password(file.obj.encrypted_password, saved.master_password)
                 = [ok |-> TRUE, val |-> saved.api_token]
            /\ _decrypt_password(file'.obj.encrypted_password, saved.master_password)
                 = [ok |-> TRUE, val |-> saved.api_token]]_vars

C18_Witness ==
    /\ saved.done
    /\ saved.again
    /\ ret.op = "save_credentials"
    /\ ret.exc = "none"

\* C19: credentials_exist() returns true iff the store file is present, and
\* once a save_credentials call has succeeded the file stays present (no
\* facade operation removes it).
C19_CredentialsExist ==
    /\ [](ret.op = "credentials_exist"
            => (ret.val = <<"True">> <=> file.exists))
    /\ [](ret.op = "credentials_exist"
            => (ret.val = <<"False">> <=> ~file.exists))
    /\ [](saved.done => file.exists)
    /\ [][file.exists => file'.exists]_vars

C19_Witness ==
    /\ saved.done
    /\ ret.op = "credentials_exist"
    /\ ret.val = <<"True">>
    /\ invalidations > 0

\* C20: whatever the store file holds, when the encrypted_password decrypts
\* under the password load_credentials() obtained, the SessionCache holds
\* that password after the call.
C20_CacheKeptOnSuccess ==
    (/\ ret.op = "load_credentials"
     /\ ret.mp # NONE
     /\ IsObject(file)
     /\ Has(file.obj, "encrypted_password")
     /\ _decrypt_password(file.obj.encrypted_password, ret.mp).ok)
      => cache = ret.mp

\* C21: when the store file exists but is not parseable JSON,
\* load_credentials() and load_llm_config() issue no master-password prompt
\* and leave the SessionCache exactly as it was.
C21_FormatErrorFrame ==
    [][(/\ file.exists
        /\ file.parse = "error"
        /\ ret'.op \in {"load_credentials", "load_llm_config"})
         => /\ ~ret'.prompted
            /\ prompts' = prompts
            /\ ~ret'.cleared
            /\ invalidations' = invalidations
            /\ cache' = cache]_vars

\* The unparsable file is met with an empty cache, where a prompt would show.
C21_Witness ==
    /\ file.exists
    /\ file.parse = "error"
    /\ ret.op = "load_credentials"
    /\ ret.exc = "JSONDecodeError"
    /\ cache = NONE
    /\ prompts = 0

\* C22: when the most recent successful save_credentials used the master
\* password P and every prompt of a load_credentials() call is answered with
\* P, the call returns the email and the token of that save, also when an
\* earlier load of the same process cached another master password.
C22_FreshAfterResave ==
    (/\ saved.done
     /\ ret.op = "load_credentials"
     /\ ret.prompted => ret.mp = saved.master_password)
      => ret.val = SavedPair

\* The record of the last save that had an LLM key holds both secrets under
\* the master password of that save.
BothUnderMaster ==
    (saved.done /\ ~Falsy(saved.llm_api_key))
      => /\ IsObject(file)
         /\ Has(file.obj, "llm")
         /\ SealedUnder(file.obj.encrypted_password,
                        saved.master_password, saved.api_token)
         /\ SealedUnder(file.obj.llm.encrypted_key,
                        saved.master_password, saved.llm_api_key)

\* A call that neither prompted nor cleared the SessionCache.
Quiet(r) == r.exc = "none" /\ ~r.prompted /\ ~r.cleared

\* C23: a record written by save_credentials with an LLM key holds the token
\* and the LLM key under the same master password; so a load_llm_config()
\* that follows a successful load_credentials() returns the plaintext LLM
\* key without a prompt and without clearing the SessionCache, and so does a
\* load_credentials() that follows a successful load_llm_config().
C23_OnePasswordBothSecrets ==
    /\ []BothUnderMaster
    /\ [][(/\ saved.done
            /\ ~Falsy(saved.llm_api_key)
            /\ ret.op = "load_credentials"
            /\ ret.val = SavedPair
            /\ ret'.op = "load_llm_config")
             => /\ Quiet(ret')
                /\ ret'.val[3] = saved.llm_api_key
                /\ cache' = cache]_vars
    /\ [][(/\ saved.done
            /\ ~Falsy(saved.llm_api_key)
            /\ ret.op = "load_llm_config"
            /\ ret.val[3] = saved.llm_api_key
            /\ ret'.op = "load_credentials")
             => /\ Quiet(ret')
                /\ ret'.val = SavedPair
                /\ cache' = cache]_vars

\* load_llm_config() has just returned the key on the password that an
\* earlier load_credentials() left in the cache.
C23_Witness ==
    /\ saved.done
    /\ ~Falsy(saved.llm_api_key)
    /\ ret.op = "load_llm_config"
    /\ ret.val[3] = saved.llm_api_key
    /\ ~ret.prompted
    /\ prompts = 1
    /\ cache = saved.master_password

\* Both processes have finished a save_credentials call.
BothSaved == \A p \in Procs : procs[p].pc = "done" /\ procs[p].op = "save"

\* C24: after two processes have both finished save_credentials on the same
\* store, the file holds the complete record of exactly one of them, never
\* a mixture or a truncated record; and a load_credentials() that ran while
\* a save was in progress read the complete old or the complete new record.
C24_LastWriterWins ==
    /\ BothSaved => \E p \in Procs : disk.text = procs[p].buf
    /\ \A p \in Procs :
          (procs[p].pc = "done" /\ procs[p].op = "load" /\ procs[p].during)
            => procs[p].read \in {procs[p].old, procs[p].new}

\* The condition under which setup_credentials may write: no store, or the
\* reconfigure question answered y or yes; and an email and a token given.
MayWrite(existed, c) ==
    /\ ~existed \/ c.response \in {"y", "yes"}
    /\ c.email # ""
    /\ c.token # ""

\* C25: setup_credentials() writes the store only when no store exists or
\* the reconfigure question was answered y/yes, and the email and the API
\* token entered are both non-empty; in every other case save_credentials is
\* not called and the store file is unchanged; and no error of
\* save_credentials leaves setup_credentials.
C25_SetupWritesOnlyWhenAsked ==
    [][ret'.op = "setup_credentials"
         => /\ cli'.exc = "none"
            /\ cli'.existed = credentials_exist(file)
            /\ file' # file => (cli'.called /\ MayWrite(credentials_exist(file), cli'))
            /\ cli'.called => MayWrite(credentials_exist(file), cli')
            /\ ~MayWrite(credentials_exist(file), cli')
                 => (~cli'.called /\ file' = file /\ iv' = iv)]_vars

\* A reconfiguration was agreed to and stopped by a mismatch of the master
\* password: the store is as it was and no error reached the caller.
C25_Witness ==
    /\ cli.op = "setup_credentials"
    /\ ret.op = "setup_credentials"
    /\ cli.existed
    /\ cli.response = "yes"
    /\ cli.called
    /\ cli.saveExc = "ValueError"
    /\ cli.exc = "none"
    /\ file.exists

ClientOps == {"get_authenticated_client", "check_credentials_and_fetch_data"}

\* C26: get_authenticated_client() and check_credentials_and_fetch_data()
\* construct a TogglSessionClient only after load_credentials() returned a
\* non-empty email and a non-empty token; when the store still does not
\* exist after the forced setup they return None without a master-password
\* prompt of load_credentials; and when load_credentials returns the empty
\* result they return None without contacting the tracking service.
C26_ClientOnlyWithCredentials ==
    [][ret'.op \in ClientOps
         => /\ cli'.constructed
                 => /\ cli'.loaded
                    /\ cli'.loadExc = "none"
                    /\ ~Falsy(cli'.loadVal[1])
                    /\ ~Falsy(cli'.loadVal[2])
                    /\ cli'.clientArgs = cli'.loadVal
            /\ cli'.contacted => cli'.constructed
            /\ cli'.result = "client" => cli'.constructed
            /\ (~file.exists /\ ~file'.exists)
                 => /\ cli'.forced
                    /\ cli'.result = "None"
                    /\ ~cli'.loaded
                    /\ ~cli'.prompted
                    /\ prompts' = prompts
                    /\ cache' = cache
                    /\ ~cli'.contacted
            /\ (cli'.loaded /\ cli'.loadExc = "none" /\ cli'.loadVal = Empty)
                 => /\ cli'.result = "None"
                    /\ ~cli'.constructed
                    /\ ~cli'.contacted]_vars

\* The forced setup wrote the store, but the prompt of load_credentials was
\* answered with another password: None, and the service was not contacted.
C26_Witness ==
    /\ ret.op \in ClientOps
    /\ cli.forced
    /\ cli.called
    /\ file.exists
    /\ cli.loaded
    /\ cli.prompted
    /\ cli.loadVal = Empty
    /\ cli.result = "None"
    /\ ~cli.contacted

\* C28: toggl_create_time_entry calls client.put_hours only with an end that
\* is strictly after the start, whatever --start and --end are; when the end
\* is not after the start the command exits with status 1 and put_hours is
\* not called.
C28_EndAfterStart ==
    [][ret'.op = "toggl_create_time_entry"
         => /\ cli'.putCalled
                 => /\ cli'.compared
                    /\ cli'.putStart = cli'.start_time
                    /\ cli'.putEnd = cli'.end_time
                    /\ cli'.putEnd > cli'.putStart
            /\ (cli'.compared /\ cli'.end_time <= cli'.start_time)
                 => (cli'.exit = 1 /\ ~cli'.putCalled)
            /\ ~cli'.putCalled => cli'.exit = 1]_vars

\* --start and --end name the same minute: status 1, nothing submitted.
C28_Witness ==
    /\ ret.op = "toggl_create_time_entry"
    /\ cli.compared
    /\ cli.end_time = cli.start_time
    /\ cli.exit = 1
    /\ ~cli.putCalled

\* The time entries handed to client.put_hours in a step.
NewPuts == SubSeq(audio'.puts, Len(audio.puts) + 1, Len(audio'.puts))

\* What a step of the review loop may do to the submitted entries and to
\* the place in the loop.
ReviewStep ==
    /\ Len(audio'.puts) > Len(audio.puts)
         => /\ audio.pc = "menu"
            /\ audio'.answer = "s"
            /\ \A i \in 1..Len(NewPuts) :
                  /\ NewPuts[i].project \in audio.projects
                  /\ \E j \in 1..Len(audio.activities) :
                        audio.activities[j].project = NewPuts[i].project
    /\ (audio.pc \in {"llm", "menu"} /\ audio'.pc = "ended")
         => (audio.pc = "menu" /\ audio'.answer \in {"s", "q"})
    /\ (audio.pc = "menu" /\ audio'.pc # "menu" /\ audio'.answer = "q")
         => (audio'.pc = "ended" /\ audio'.puts = audio.puts)
    /\ (audio.pc = "menu" /\ audio'.pc \notin {"menu", "crashed"}
                          /\ audio'.answer \notin {"s", "q"})
         => (audio'.pc = "llm" /\ audio'.puts = audio.puts)
    /\ (audio.pc = "llm" /\ audio' # audio)
         => audio'.llmCalls > audio.llmCalls

\* C27: in the review loop of cmd_audio, time entries are submitted only
\* after the user chooses s, and only for activities of the shown result
\* whose project name is the name of a known project; the loop ends only on
\* s or q, and q submits nothing; any other answer leads to another round
\* of LLM processing.
C27_ReviewLoop == [][ReviewStep]_vars

\* The user chose s on a result with an activity of an unknown project and
\* one of a known project: one entry was submitted and the loop ended.
C27_Witness ==
    /\ audio.pc = "ended"
    /\ audio.answer = "s"
    /\ Len(audio.activities) = 2
    /\ Len(audio.puts) = 1
    /\ audio.puts[1].project \in audio.projects
    /\ audio.llmCalls > 1

====
